---- MODULE Spec2Model ----
(***************************************************************************)
(* Model of wdom's web-synchronised nodes:                                 *)
(*   src/wdom/web_node.py  WdomElement (commands pushed synchronously)     *)
(*   src/wdom/webif.py     WebIF       (commands sent by a scheduled task) *)
(* The DOM tree library (wdom.node / wdom.element) and the transport       *)
(* (wdom.server) are collaborators whose code is not part of src/; the     *)
(* operators that stand for them say so.                                   *)
(***************************************************************************)
EXTENDS Integers, Sequences, FiniteSets, TLC

(***************************************************************************)
(* Universe of the model.                                                  *)
(***************************************************************************)
None == "None"
Docs == {"d1", "d2"}              \* Document objects of the process
Elems == {"e1", "e2"}             \* WdomElement instances
Texts == {"t1", "t2"}             \* plain text nodes (CharacterData, no identity)
WebIFs == {"w1"}                  \* instances of a class mixing in WebIF
Conns == {"c1", "c2"}             \* transport sessions
MainConns == {"c1"}               \* the session that the specifications of one document's traffic follow
Containers == Docs \cup Elems
Nodes == Elems \cup Texts
QueryNodes == Elems \cup WebIFs
\* Identities: str(id(self)) of each element, a decimal number, and a name a
\* caller supplies
Ids == Elems \cup {"x"}
Numeric(i) == i \in Elems
EventTypes == {"click", "mount"}
Listeners == {"l1", "l2"}         \* callbacks of the application
AttrNames == {"class"}
AttrValues == {"a", "b"}

MaxReq == 2                       \* queries issued in a run
MaxSendQ == 1                     \* scheduled, not yet run, WebIF sends
MaxSched == 3                     \* plain WebIF.js_exec sends scheduled in a run
MaxListeners == 2                 \* listeners of one event type on one node

\* Payloads a browser can put in "data": 0, '', false, [], null and 7
Data == {"int0", "str_empty", "false", "list_empty", "null", "int7"}
\* Python truth value of msg.get('data', False)
Truthy(d) == d \in {"int7"}
NoReqid == -1                     \* msg.get('reqid') of a message without one

VARIABLES
    children,   \* [Containers -> Seq(Nodes)]: the local tree
    conns,      \* [Docs -> SUBSET Conns]: live connections showing each document
    wowner,     \* [WebIFs -> Docs \cup {None}]: ownerDocument of a WebIF node
    reqid,      \* [QueryNodes -> Nat]: __reqid / _reqid
    tasks,      \* [QueryNodes -> [keys -> handle index]]: __tasks / _tasks
    futs,       \* [QueryNodes -> Seq([st, val, by])]: the Futures js_query created
    qlog,       \* [QueryNodes -> Seq(Int)]: request id carried by the k-th query command
    sendq,      \* Seq of scheduled WebIF.ws_send tasks (asyncio runs them FIFO)
    nsched,     \* number of tasks ensure_future has created for WebIF sends
    wire,       \* [Conns -> Seq([id, seq])]: what write_message put on each session
    listeners,  \* [Elems -> [EventTypes -> Seq(listener)]]: _event_listeners
    alive,      \* the elements that exist (constructed and not collected)
    rimo,       \* [Elems -> Ids]: __rimo_id
    registry,   \* [Ids -> Elems \cup {None}]: _elements_with_rimo_id
    lastreg,    \* [Ids -> Elems \cup {None}]: the node registered last under each id
    attrs,      \* [Elems -> [AttrNames -> value]]: the attributes of each element
    last        \* what the most recent call did

vars == <<children, conns, wowner, reqid, tasks, futs, qlog, sendq, nsched, wire,
          listeners, alive, rimo, registry, lastreg, attrs, last>>

(***************************************************************************)
(* Sequences                                                               *)
(***************************************************************************)
InSeq(e, s) == \E i \in 1..Len(s) : s[i] = e

\* list.index(e): 0-based position of e in s (e is in s)
IndexOf(s, e) == (CHOOSE i \in 1..Len(s) : s[i] = e) - 1

Without(s, e) == SelectSeq(s, LAMBDA y : y # e)

\* list.insert(i, e) with a 0-based i
InsertAt(s, i, e) == SubSeq(s, 1, i) \o <<e>> \o SubSeq(s, i + 1, Len(s))

(***************************************************************************)
(* The tree library (wdom.node), as the sync layer uses it.  A call runs   *)
(* on an execution record x = [ch, out, raised, html]: the tree, the       *)
(* commands handed to the transport so far, whether an exception is        *)
(* propagating, and the last serialisation computed.                       *)
(***************************************************************************)
parentNode(ch, c) ==
    IF \E p \in Containers : InSeq(c, ch[p])
    THEN CHOOSE p \in Containers : InSeq(c, ch[p])
    ELSE None

RECURSIVE ownerDocument(_, _)
ownerDocument(ch, n) ==
    IF n \in Docs THEN n
    ELSE IF parentNode(ch, n) = None THEN None
    ELSE ownerDocument(ch, parentNode(ch, n))

RECURSIVE Ancestors(_, _)
Ancestors(ch, n) ==
    IF n \in Docs \/ parentNode(ch, n) = None THEN {n}
    ELSE {n} \cup Ancestors(ch, parentNode(ch, n))

\* Text nodes below n, in document order (what textContent concatenates)
RECURSIVE TextsOfSeq(_, _)
TextsOfSeq(ch, s) ==
    IF s = <<>> THEN <<>>
    ELSE (IF Head(s) \in Texts THEN <<Head(s)>> ELSE TextsOfSeq(ch, ch[Head(s)]))
         \o TextsOfSeq(ch, Tail(s))

textContent(ch, n) == TextsOfSeq(ch, ch[n])

TreeDetach(ch, c) == [p \in Containers |-> Without(ch[p], c)]

Raise(x) == [x EXCEPT !.raised = TRUE]

\* Node._append_child: the child leaves its old parent and becomes the last child
_append_child(x, p, c) ==
    [x EXCEPT !.ch = [TreeDetach(x.ch, c) EXCEPT ![p] = Append(@, c)]]

\* Node._remove_child: ValueError unless c is a child of p
_remove_child(x, p, c) ==
    IF InSeq(c, x.ch[p])
    THEN [x EXCEPT !.ch = [x.ch EXCEPT ![p] = Without(@, c)]]
    ELSE Raise(x)

\* Node._insert_before: ValueError unless ref is a child of p
_insert_before(x, p, c, ref) ==
    IF InSeq(ref, x.ch[p])
    THEN LET d == TreeDetach(x.ch, c)
         IN  [x EXCEPT !.ch = [d EXCEPT ![p] = InsertAt(@, IndexOf(@, ref), c)]]
    ELSE Raise(x)

\* Node._replace_child: ValueError unless old is a child of p
_replace_child(x, p, new, old) ==
    IF InSeq(old, x.ch[p])
    THEN LET d == TreeDetach(x.ch, new)
             i == IndexOf(d[p], old)
         IN  [x EXCEPT !.ch = [d EXCEPT ![p] = InsertAt(Without(@, old), i, new)]]
    ELSE Raise(x)

\* Node._empty
_empty(x, p) == [x EXCEPT !.ch = [x.ch EXCEPT ![p] = <<>>]]

\* ChildNode._remove: leave the parent, if any
_remove(x, n) == [x EXCEPT !.ch = TreeDetach(x.ch, n)]

\* Node._set_text_content: the children become one new text node (none for '')
_set_text_content(x, n, t) ==
    IF t = None THEN _empty(x, n) ELSE _append_child(_empty(x, n), n, t)

RECURSIVE AppendAll(_, _, _)
AppendAll(x, p, s) ==
    IF s = <<>> THEN x ELSE AppendAll(_append_child(x, p, Head(s)), p, Tail(s))

\* Serialisation of a node in its context: a text node is escaped or not
\* according to its parent, an element carries its identity and its subtree.
html(ch, c) ==
    IF c \in Texts
    THEN [kind |-> "text", node |-> c, ctx |-> parentNode(ch, c), sub |-> <<>>]
    ELSE [kind |-> "elem", node |-> rimo[c], ctx |-> None, sub |-> ch[c]]

\* remove_rimo_id: the serialisation without the identity attributes that
\* the pattern rimo_id="\d+" matches
remove_rimo_id(h) ==
    [h EXCEPT !.node = IF h.kind = "elem" /\ Numeric(@) THEN "div" ELSE @,
              !.sub = [i \in 1..Len(@) |->
                          IF @[i] \in Elems /\ Numeric(@[i]) THEN "div" ELSE @[i]]]

\* DocumentFragment.html of a parsed fragment
frag_html(frag) == [kind |-> "frag", node |-> None, ctx |-> None, sub |-> frag]

(***************************************************************************)
(* Connection-state gate                                                   *)
(***************************************************************************)
\* wdom.server.is_connected(): takes no argument, so it answers for the process
server_is_connected == \E d \in Docs : conns[d] # {}

\* WdomElement.connected
WdomElement_connected(ch, n) == server_is_connected /\ ownerDocument(ch, n) # None

\* WebIF.ownerDocument, as a subclass provides it
WebIF_ownerDocument(w) == wowner[w]

\* WebIF.connected
WebIF_connected(w) ==
    WebIF_ownerDocument(w) # None /\ conns[WebIF_ownerDocument(w)] # {}

connected(ch, n) ==
    IF n \in WebIFs THEN WebIF_connected(n) ELSE WdomElement_connected(ch, n)

\* The owning document of any node, and the gate as the specification states it
OwnerOf(ch, n) == IF n \in WebIFs THEN wowner[n] ELSE ownerDocument(ch, n)

GateConnected(ch, n) == OwnerOf(ch, n) # None /\ conns[OwnerOf(ch, n)] # {}

(***************************************************************************)
(* WdomElement: identity.  A constructor or attribute call runs on a       *)
(* record i = [rimo, registry, attrs, raised].                             *)
(***************************************************************************)
rimo_id(n) == rimo[n]

\* str(id(self)): the address of the object, which no other live object has
str_id(n) == n

\* WeakValueDictionary.__setitem__: the entry of the key is overwritten
register(reg, id, n) == [reg EXCEPT ![id] = n]

\* WeakValueDictionary.get(id): None for a key without entry; an entry never
\* outlives its node
resolve(reg, id) == reg[id]

\* Mutant: an ordinary dictionary, which keeps its entries
weak_remove_never(reg, n) == reg

\* WeakValueDictionary: the entries whose value is the collected node go
weak_remove(reg, n) == [id \in Ids |-> IF reg[id] = n THEN None ELSE reg[id]]

\* WdomElement.__init__(rimo_id=rid), without a parent
WdomElement_init(i, n, rid) ==
    LET id == IF rid = None THEN str_id(n) ELSE rid
    IN  [i EXCEPT !.rimo[n] = id,
                  !.registry = register(@, id, n),
                  !.attrs[n] = [a \in AttrNames |-> None]]

\* Element._set_attribute of the library
super_set_attribute(i, n, attr, value) == [i EXCEPT !.attrs[n][attr] = value]

\* Mutant: 'rimo_id' is stored like any attribute
_set_attribute_unchecked(i, n, attr, value) ==
    IF attr \in AttrNames THEN super_set_attribute(i, n, attr, value) ELSE i

\* WdomElement._set_attribute
_set_attribute(i, n, attr, value) ==
    IF attr = "rimo_id"
    THEN [i EXCEPT !.raised = TRUE]
    ELSE super_set_attribute(i, n, attr, value)

\* Element.setAttribute / WdomElement.__setitem__
setAttribute(i, n, attr, value) == _set_attribute(i, n, attr, value)

(***************************************************************************)
(* WdomElement: commands                                                   *)
(***************************************************************************)

tag(n) == IF n \in WebIFs THEN "webif" ELSE "div"

\* server.push_message(obj): the transport takes the command
push_message(x, obj) == [x EXCEPT !.out = Append(@, obj)]

\* Mutant: the identity and the tag name change places
ws_send_swapped(x, n, method, params) ==
    IF ownerDocument(x.ch, n) # None
    THEN push_message(x, [method |-> method, params |-> params,
                          target |-> "node", id |-> tag(n), tag |-> rimo_id(n)])
    ELSE x

\* WdomElement.ws_send
ws_send(x, n, method, params) ==
    IF ownerDocument(x.ch, n) # None
    THEN push_message(x, [method |-> method, params |-> params,
                          target |-> "node", id |-> rimo_id(n), tag |-> tag(n)])
    ELSE x

\* WdomElement.js_exec
js_exec(x, n, method, params) ==
    IF WdomElement_connected(x.ch, n) THEN ws_send(x, n, method, params) ELSE x

(***************************************************************************)
(* WdomElement: child nodes                                                *)
(***************************************************************************)
\* Mutant: a text node is serialised without being attached
_get_child_html_detached(x, n, c) == [x EXCEPT !.html = html(x.ch, c)]

\* WdomElement._get_child_html: a text node is attached for the time of its
\* serialisation, then removed again
_get_child_html(x, n, c) ==
    IF c \in Texts
    THEN LET x1 == _append_child(x, n, c)
             x2 == [x1 EXCEPT !.html = html(x1.ch, c)]
         IN  _remove_child(x2, n, c)
    ELSE [x EXCEPT !.html = html(x.ch, c)]

_remove_web(x, n) == js_exec(x, n, "remove", <<>>)

\* WdomElement.remove
remove(x, n) ==
    LET x1 == IF WdomElement_connected(x.ch, n) THEN _remove_web(x, n) ELSE x
    IN  _remove(x1, n)

_empty_web(x, n) == js_exec(x, n, "empty", <<>>)

\* WdomElement.empty
empty(x, n) ==
    LET x1 == IF WdomElement_connected(x.ch, n) THEN _empty_web(x, n) ELSE x
    IN  _empty(x1, n)

_append_child_web(x, n, c) ==
    LET x1 == _get_child_html(x, n, c)
    IN  js_exec(x1, n, "insertAdjacentHTML", <<"beforeend", x1.html>>)

\* Mutant: the local tree is updated only when nothing is sent
appendChild_web_or_local(x, n, c) ==
    IF WdomElement_connected(x.ch, n)
    THEN _append_child_web(x, n, c)
    ELSE _append_child(x, n, c)

\* WdomElement.appendChild
appendChild(x, n, c) ==
    LET x1 == IF WdomElement_connected(x.ch, n) THEN _append_child_web(x, n, c) ELSE x
    IN  _append_child(x1, n, c)

\* Mutant: the command for an element reference is issued on the node itself
_insert_before_web_on_self(x, n, c, ref) ==
    LET x1 == _get_child_html(x, n, c)
    IN  IF ref \in Elems
        THEN js_exec(x1, n, "insertAdjacentHTML", <<"beforebegin", x1.html>>)
        ELSE IF InSeq(ref, x1.ch[n])
             THEN js_exec(x1, n, "insert", <<IndexOf(x1.ch[n], ref), x1.html>>)
             ELSE Raise(x1)

_insert_before_web(x, n, c, ref) ==
    LET x1 == _get_child_html(x, n, c)
    IN  IF ref \in Elems
        THEN js_exec(x1, ref, "insertAdjacentHTML", <<"beforebegin", x1.html>>)
        ELSE IF InSeq(ref, x1.ch[n])
             THEN js_exec(x1, n, "insert", <<IndexOf(x1.ch[n], ref), x1.html>>)
             ELSE Raise(x1)       \* self.index(ref_node): ValueError

\* WdomElement.insertBefore
insertBefore(x, n, c, ref) ==
    LET x1 == IF WdomElement_connected(x.ch, n)
              THEN _insert_before_web(x, n, c, ref) ELSE x
    IN  IF x1.raised THEN x1 ELSE _insert_before(x1, n, c, ref)

\* Mutant: the command is sent without looking for the child among the children
_remove_child_web_unchecked(x, n, c) ==
    IF c \in Elems
    THEN js_exec(x, n, "removeChildById", <<rimo_id(c)>>)
    ELSE IF InSeq(c, x.ch[n])
         THEN js_exec(x, n, "removeChildByIndex", <<IndexOf(x.ch[n], c)>>)
         ELSE Raise(x)

\* Mutant: a text child is counted from one
_remove_child_web_one_based(x, n, c) ==
    IF InSeq(c, x.ch[n])
    THEN IF c \in Elems
         THEN js_exec(x, n, "removeChildById", <<rimo_id(c)>>)
         ELSE js_exec(x, n, "removeChildByIndex", <<IndexOf(x.ch[n], c) + 1>>)
    ELSE x

_remove_child_web(x, n, c) ==
    IF InSeq(c, x.ch[n])
    THEN IF c \in Elems
         THEN js_exec(x, n, "removeChildById", <<rimo_id(c)>>)
         ELSE js_exec(x, n, "removeChildByIndex", <<IndexOf(x.ch[n], c)>>)
    ELSE x

\* WdomElement.removeChild
removeChild(x, n, c) ==
    LET x1 == IF WdomElement_connected(x.ch, n) THEN _remove_child_web(x, n, c) ELSE x
    IN  _remove_child(x1, n, c)

\* Mutant: every old child is removed and the new one inserted at its index
_replace_child_web_by_index(x, n, new, old) ==
    LET x1 == _get_child_html(x, n, new)
    IN  IF parentNode(x1.ch, old) # None
        THEN LET index == IndexOf(x1.ch[parentNode(x1.ch, old)], old)
                 x2 == _remove_child_web(x1, n, old)
             IN  js_exec(x2, n, "insert", <<index, x1.html>>)
        ELSE x1

\* Mutant: the new child is inserted before the old one is removed
_replace_child_web_insert_first(x, n, new, old) ==
    LET x1 == _get_child_html(x, n, new)
    IN  IF old \in Elems
        THEN js_exec(x1, n, "replaceChildById", <<x1.html, rimo_id(old)>>)
        ELSE IF parentNode(x1.ch, old) # None
             THEN LET index == IndexOf(x1.ch[parentNode(x1.ch, old)], old)
                      x2 == js_exec(x1, n, "insert", <<index, x1.html>>)
                  IN  _remove_child_web(x2, n, old)
             ELSE x1

_replace_child_web(x, n, new, old) ==
    LET x1 == _get_child_html(x, n, new)
    IN  IF old \in Elems
        THEN js_exec(x1, n, "replaceChildById", <<x1.html, rimo_id(old)>>)
        ELSE IF parentNode(x1.ch, old) # None
             THEN LET index == IndexOf(x1.ch[parentNode(x1.ch, old)], old)
                      x2 == _remove_child_web(x1, n, old)
                  IN  js_exec(x2, n, "insert", <<index, x1.html>>)
             ELSE x1

\* WdomElement.replaceChild
replaceChild(x, n, new, old) ==
    LET x1 == IF WdomElement_connected(x.ch, n)
              THEN _replace_child_web(x, n, new, old) ELSE x
    IN  _replace_child(x1, n, new, old)

_set_text_content_web(x, n) == js_exec(x, n, "textContent", <<textContent(x.ch, n)>>)

\* Mutant: the command is sent before the local change
set_textContent_web_first(x, n, t) ==
    LET x1 == IF WdomElement_connected(x.ch, n) THEN _set_text_content_web(x, n) ELSE x
    IN  _set_text_content(x1, n, t)

\* WdomElement.textContent setter; t is the text node holding the new text
set_textContent(x, n, t) ==
    LET x1 == _set_text_content(x, n, t)
    IN  IF WdomElement_connected(x1.ch, n) THEN _set_text_content_web(x1, n) ELSE x1

_set_inner_html_web(x, n, h) == js_exec(x, n, "innerHTML", <<h>>)

\* WdomElement.innerHTML setter; frag is the parsed fragment's node list
set_innerHTML(x, n, frag) ==
    LET x1 == IF WdomElement_connected(x.ch, n)
              THEN _set_inner_html_web(x, n, frag_html(frag)) ELSE x
    IN  AppendAll(_empty(x1, n), n, frag)

\* WdomElement.exec
exec(x, n) == js_exec(x, n, "eval", <<"script">>)

\* WdomElement.scroll / scrollTo / scrollBy
scroll(x, n, method) == js_exec(x, n, method, <<0, 0>>)

(***************************************************************************)
(* WdomElement: event handling.  These calls run on a record that has, on  *)
(* top of the fields of x, the listener tables ls and the dispatches made, *)
(* each with the event and the listeners it invoked.                       *)
(***************************************************************************)
\* list.remove(l): without the first occurrence of l
RemoveFirst(sq, l) ==
    IF InSeq(l, sq)
    THEN LET i == CHOOSE k \in 1..Len(sq) : sq[k] = l /\ \A j \in 1..(k - 1) : sq[j] # l
         IN  SubSeq(sq, 1, i - 1) \o SubSeq(sq, i + 1, Len(sq))
    ELSE sq

\* EventTarget.addEventListener of the library: one more listener for the type
_add_event_listener(x, n, event, l) == [x EXCEPT !.ls[n][event] = Append(@, l)]

\* EventTarget.removeEventListener of the library: the listener leaves the
\* list of its type, and a type without listeners leaves _event_listeners
_remove_event_listener(x, n, event, l) == [x EXCEPT !.ls[n][event] = RemoveFirst(@, l)]

\* event in self._event_listeners
in_event_listeners(x, n, event) == x.ls[n][event] # <<>>

\* create_event(msg)
create_event(msg) ==
    [type |-> msg.type, currentTarget |-> msg.currentTarget, target |-> msg.target]

\* EventTarget._dispatch_event: the listeners of the event's type are called
_dispatch_event(x, n, e) ==
    [x EXCEPT !.events = Append(@, [event |-> e, listeners |-> x.ls[n][e.type]])]

_add_event_listener_web(x, n, event) == js_exec(x, n, "addEventListener", <<event>>)

\* WdomElement.addEventListener
addEventListener(x, n, event, l) ==
    LET x1 == _add_event_listener(x, n, event, l)
    IN  IF WdomElement_connected(x1.ch, n) THEN _add_event_listener_web(x1, n, event) ELSE x1

\* Mutant: the command is sent whether or not listeners remain
_remove_event_listener_web_always(x, n, event) ==
    js_exec(x, n, "removeEventListener", <<event>>)

_remove_event_listener_web(x, n, event) ==
    IF ~in_event_listeners(x, n, event)
    THEN js_exec(x, n, "removeEventListener", <<event>>)
    ELSE x

\* WdomElement.removeEventListener
removeEventListener(x, n, event, l) ==
    LET x1 == _remove_event_listener(x, n, event, l)
    IN  IF WdomElement_connected(x1.ch, n)
        THEN _remove_event_listener_web(x1, n, event) ELSE x1

\* The event types in _event_listeners, in the order of their registration:
\* 'mount', registered by the constructor, comes first
event_keys(x, n) ==
    SelectSeq(<<"mount", "click">>, LAMBDA ev : in_event_listeners(x, n, ev))

RECURSIVE add_event_listeners_web(_, _, _)
add_event_listeners_web(x, n, keys) ==
    IF keys = <<>> THEN x
    ELSE add_event_listeners_web(_add_event_listener_web(x, n, Head(keys)), n, Tail(keys))

\* Mutant: only the first event type is announced
_on_mount_first_only(x, n) ==
    add_event_listeners_web(x, n, SubSeq(event_keys(x, n), 1, 1))

\* WdomElement._on_mount
_on_mount(x, n) == add_event_listeners_web(x, n, event_keys(x, n))

\* A 'mount' event dispatched on the node: its listeners are called, and
\* _on_mount is the one among them that belongs to the node itself
dispatch_mount(x, n) ==
    LET msg == [proto |-> "", type |-> "mount",
                currentTarget |-> rimo_id(n), target |-> rimo_id(n)]
        x1 == _dispatch_event(x, n, create_event(msg))
    IN  IF InSeq("_on_mount", x.ls[n]["mount"]) THEN _on_mount(x1, n) ELSE x1

\* Mutant: the command is sent and the event is dispatched as well
click_both(x, n) ==
    LET msg == [proto |-> "", type |-> "click",
                currentTarget |-> rimo_id(n), target |-> rimo_id(n)]
        x1 == IF WdomElement_connected(x.ch, n) THEN js_exec(x, n, "click", <<>>) ELSE x
    IN  _dispatch_event(x1, n, create_event(msg))

\* WdomElement.click
click(x, n) ==
    IF WdomElement_connected(x.ch, n)
    THEN js_exec(x, n, "click", <<>>)
    ELSE LET msg == [proto |-> "", type |-> "click",
                     currentTarget |-> rimo_id(n), target |-> rimo_id(n)]
         IN  _dispatch_event(x, n, create_event(msg))

(***************************************************************************)
(* Pending requests.  A query runs on a record q = [reqid, tasks, futs,    *)
(* out, raised, ret, retfut] of the node's counter, its table (a set of    *)
(* [k, h]: key and Future), its Futures, the commands emitted or           *)
(* scheduled, and the Future returned.                                     *)
(***************************************************************************)
PendingFut == [st |-> "pending", val |-> None, by |-> "-"]

ResolvedNone == [st |-> "done", val |-> "null", by |-> "js_query"]

\* dict[k] = h
Put(t, k, h) == {e \in t : e.k # k} \cup {[k |-> k, h |-> h]}

\* dict.pop(k, False): the table without k
Pop(t, k) == {e \in t : e.k # k}

\* the Future stored under k, 0 when there is none
Lookup(t, k) == IF \E e \in t : e.k = k THEN (CHOOSE e \in t : e.k = k).h ELSE 0

fut_cancelled(f) == f.st = "cancelled"

fut_done(f) == f.st # "pending"

\* Future.set_result: InvalidStateError unless the Future is pending
set_result(q, h, v) ==
    IF q.futs[h].st = "pending"
    THEN [q EXCEPT !.futs[h] = [st |-> "done", val |-> v, by |-> "response"]]
    ELSE [q EXCEPT !.raised = TRUE]

\* Mutant: the response is given to whichever task is in the table
on_response_any_task(q, r, d) ==
    IF Truthy(d)
    THEN LET k == IF q.tasks = {} THEN r ELSE (CHOOSE e \in q.tasks : TRUE).k
             task == Lookup(q.tasks, k)
             q1 == [q EXCEPT !.tasks = Pop(@, k)]
         IN  IF task # 0 /\ ~fut_cancelled(q.futs[task]) /\ ~fut_done(q.futs[task])
             THEN set_result(q1, task, d)
             ELSE q1
    ELSE q

\* Mutant: the state of the Future is not looked at before set_result
on_response_unguarded(q, r, d) ==
    IF Truthy(d)
    THEN LET task == Lookup(q.tasks, r)
             q1 == [q EXCEPT !.tasks = Pop(@, r)]
         IN  IF task # 0 THEN set_result(q1, task, d) ELSE q1
    ELSE q

\* WdomElement.on_response
on_response(q, r, d) ==
    IF Truthy(d)
    THEN LET task == Lookup(q.tasks, r)
             q1 == [q EXCEPT !.tasks = Pop(@, r)]
         IN  IF task # 0 /\ ~fut_cancelled(q.futs[task]) /\ ~fut_done(q.futs[task])
             THEN set_result(q1, task, d)
             ELSE q1
    ELSE q

\* Mutant: the counter is not advanced
js_query_same_id(q, x, n, query) ==
    IF WdomElement_connected(x.ch, n)
    THEN LET x1 == js_exec(x, n, query, <<q.reqid>>)
             fut == Len(q.futs) + 1
         IN  [q EXCEPT !.out = x1.out,
                       !.futs = Append(@, PendingFut),
                       !.tasks = Put(@, q.reqid, fut),
                       !.ret = fut, !.retfut = PendingFut]
    ELSE [q EXCEPT !.ret = 0, !.retfut = ResolvedNone]

\* WdomElement.js_query
js_query(q, x, n, query) ==
    IF WdomElement_connected(x.ch, n)
    THEN LET x1 == js_exec(x, n, query, <<q.reqid>>)
             fut == Len(q.futs) + 1
         IN  [q EXCEPT !.out = x1.out,
                       !.futs = Append(@, PendingFut),
                       !.tasks = Put(@, q.reqid, fut),
                       !.reqid = @ + 1,
                       !.ret = fut, !.retfut = PendingFut]
    ELSE [q EXCEPT !.ret = 0, !.retfut = ResolvedNone]

(***************************************************************************)
(* WebIF                                                                   *)
(***************************************************************************)
\* WebIF.js_exec: ensure_future(self.ws_send(obj)) schedules the send
WebIF_js_exec(q, w, method, params) ==
    IF WebIF_connected(w)
    THEN [q EXCEPT !.out = Append(@, [node |-> w, method |-> method, params |-> params])]
    ELSE q

\* Mutant: the counter is advanced before the handle is stored
WebIF_js_query_next_key(q, w, query) ==
    IF WebIF_connected(w)
    THEN LET q1 == WebIF_js_exec(q, w, query, <<q.reqid>>)
             fut == Len(q.futs) + 1
         IN  [q1 EXCEPT !.futs = Append(@, PendingFut),
                        !.tasks = Put(@, q.reqid + 1, fut),
                        !.reqid = @ + 1,
                        !.ret = fut, !.retfut = PendingFut]
    ELSE [q EXCEPT !.ret = 0, !.retfut = ResolvedNone]

\* WebIF.js_query
WebIF_js_query(q, w, query) ==
    IF WebIF_connected(w)
    THEN LET q1 == WebIF_js_exec(q, w, query, <<q.reqid>>)
             fut == Len(q.futs) + 1
         IN  [q1 EXCEPT !.futs = Append(@, PendingFut),
                        !.tasks = Put(@, q.reqid, fut),
                        !.reqid = @ + 1,
                        !.ret = fut, !.retfut = PendingFut]
    ELSE [q EXCEPT !.ret = 0, !.retfut = ResolvedNone]

\* Mutant: pop without a default, KeyError for an unknown reqid
_handle_response_keyerror(q, r, d) ==
    IF Truthy(d)
    THEN LET task == Lookup(q.tasks, r)
             q1 == [q EXCEPT !.tasks = Pop(@, r)]
         IN  IF task = 0 THEN [q EXCEPT !.raised = TRUE]
             ELSE IF ~fut_cancelled(q.futs[task]) /\ ~fut_done(q.futs[task])
                  THEN set_result(q1, task, d)
                  ELSE q1
    ELSE q

\* WebIF._handle_response
_handle_response(q, r, d) ==
    IF Truthy(d)
    THEN LET task == Lookup(q.tasks, r)
             q1 == [q EXCEPT !.tasks = Pop(@, r)]
         IN  IF task # 0 /\ ~fut_cancelled(q.futs[task]) /\ ~fut_done(q.futs[task])
             THEN set_result(q1, task, d)
             ELSE q1
    ELSE q

\* WebIF._handle_event: the event goes to dispatchEvent
_handle_event(q) == [q EXCEPT !.dispatched = @ + 1]

\* Mutant: a message that is no response is handled as an event
on_message_else_event(q, type, r, d) ==
    IF type = "response" THEN _handle_response(q, r, d) ELSE _handle_event(q)

\* WebIF.on_message
on_message(q, type, r, d) ==
    IF type = "event" THEN _handle_event(q)
    ELSE IF type = "response" THEN _handle_response(q, r, d)
    ELSE q

\* Mutant: the message goes to every connection of the process
WebIF_ws_send_broadcast(obj) ==
    LET msg == [method |-> obj.method, params |-> obj.params,
                target |-> "node", id |-> obj.node, tag |-> tag(obj.node)]
    IN  [msg |-> msg,
         written |-> IF WebIF_ownerDocument(obj.node) # None
                     THEN UNION {conns[d] : d \in Docs} ELSE {}]

\* WebIF.ws_send, run by the event loop: the connections written to
WebIF_ws_send(obj) ==
    LET msg == [method |-> obj.method, params |-> obj.params,
                target |-> "node", id |-> obj.node, tag |-> tag(obj.node)]
    IN  [msg |-> msg,
         written |-> IF WebIF_ownerDocument(obj.node) # None
                     THEN conns[WebIF_ownerDocument(obj.node)] ELSE {}]

(***************************************************************************)
(* State machine                                                           *)
(***************************************************************************)
treeVars == <<children>>
queryVars == <<reqid, tasks, futs, qlog>>
sendVars == <<sendq, nsched, wire>>
eventVars == <<listeners>>
idVars == <<alive, rimo, registry, lastreg, attrs>>

\* A call starts on the current tree with nothing emitted
X0 == [ch |-> children, out |-> <<>>, raised |-> FALSE, html |-> None]

Q0(n) == [reqid |-> reqid[n], tasks |-> tasks[n], futs |-> futs[n], out |-> <<>>,
          raised |-> FALSE, ret |-> 0, retfut |-> None, dispatched |-> 0]

\* The record of a call on node n: gate is the connection state of n when the
\* call starts as the specification defines it, prop is its `connected` property.
Call(op, n, cmds, raised) ==
    [op |-> op, node |-> n, gate |-> GateConnected(children, n),
     prop |-> connected(children, n),
     cmds |-> cmds, raised |-> raised, args |-> <<>>, rid |-> NoReqid, data |-> None,
     pre |-> "-", h |-> 0, ret |-> 0, retfut |-> None, written |-> {}, dispatched |-> 0,
     events |-> <<>>, had |-> 0]

\* The record of a step that is no gated call
Step(op, n, raised) ==
    [op |-> op, node |-> n, gate |-> FALSE, prop |-> FALSE,
     cmds |-> <<>>, raised |-> raised, args |-> <<>>, rid |-> NoReqid, data |-> None,
     pre |-> "-", h |-> 0, ret |-> 0, retfut |-> None, written |-> {}, dispatched |-> 0,
     events |-> <<>>, had |-> 0]

Init ==
    /\ children = [p \in Containers |-> <<>>]
    /\ conns = [d \in Docs |-> {}]
    /\ wowner = [w \in WebIFs |-> None]
    /\ reqid = [n \in QueryNodes |-> 0]
    /\ tasks = [n \in QueryNodes |-> {}]
    /\ futs = [n \in QueryNodes |-> <<>>]
    /\ qlog = [n \in QueryNodes |-> <<>>]
    /\ sendq = <<>>
    /\ nsched = 0
    /\ wire = [c \in Conns |-> <<>>]
    /\ listeners = [n \in Elems |->
                       [ev \in EventTypes |-> IF ev = "mount" THEN <<"_on_mount">> ELSE <<>>]]
    /\ alive = Elems
    /\ rimo = [n \in Elems |-> n]
    /\ registry = [i \in Ids |-> IF i \in Elems THEN i ELSE None]
    /\ lastreg = [i \in Ids |-> IF i \in Elems THEN i ELSE None]
    /\ attrs = [n \in Elems |-> [a \in AttrNames |-> None]]
    /\ last = Step("init", None, FALSE)

\* A node that may be given as a new child of n: it has no parent and n is not
\* below it (moving an attached node is the tree library's business)
Insertable(n, c) == parentNode(children, c) = None /\ c \notin Ancestors(children, n)

\* A node as the HTML parser creates it
Fresh(c) ==
    /\ parentNode(children, c) = None
    /\ c \in Elems => children[c] = <<>> /\ reqid[c] = 0 /\ futs[c] = <<>>

\* The transport opens / closes a connection showing document d
ConnOpen(d, c) ==
    /\ \A e \in Docs : c \notin conns[e]
    /\ conns' = [conns EXCEPT ![d] = @ \cup {c}]
    /\ last' = Step("open", None, FALSE)
    /\ UNCHANGED <<treeVars, wowner, queryVars, sendVars, eventVars, idVars>>

\* (what was written on a session is gone with the session)
ConnClose(d, c) ==
    /\ c \in conns[d]
    /\ conns' = [conns EXCEPT ![d] = @ \ {c}]
    /\ wire' = [wire EXCEPT ![c] = <<>>]
    /\ last' = Step("close", None, FALSE)
    /\ UNCHANGED <<treeVars, wowner, queryVars, sendq, nsched, eventVars, idVars>>

\* Document.appendChild of a detached element: the subtree gets an owner
DocAppendChild(d, n) ==
    /\ parentNode(children, n) = None
    /\ children' = _append_child(X0, d, n).ch
    /\ last' = Step("attach", n, FALSE)
    /\ UNCHANGED <<conns, wowner, queryVars, sendVars, eventVars, idVars>>

\* One call of a WdomElement method that ends in execution record x
Mutation(op, n, args, x) ==
    /\ children' = x.ch
    /\ last' = [Call(op, n, x.out, x.raised) EXCEPT !.args = args]
    /\ UNCHANGED <<conns, wowner, queryVars, sendVars, eventVars, idVars>>

AppendChild(n, c) ==
    /\ Insertable(n, c)
    /\ Mutation("appendChild", n, <<c>>, appendChild(X0, n, c))

InsertBefore(n, c, ref) ==
    /\ Insertable(n, c)
    /\ Mutation("insertBefore", n, <<c, ref>>, insertBefore(X0, n, c, ref))

RemoveChild(n, c) == Mutation("removeChild", n, <<c>>, removeChild(X0, n, c))

ReplaceChild(n, new, old) ==
    /\ Insertable(n, new)
    /\ Mutation("replaceChild", n, <<new, old>>, replaceChild(X0, n, new, old))

\* Mutant: a node that leaves its parent forgets its pending requests
Remove_forgetting_tasks(n) ==
    /\ children' = remove(X0, n).ch
    /\ tasks' = [tasks EXCEPT ![n] = {}]
    /\ last' = Call("remove", n, remove(X0, n).out, remove(X0, n).raised)
    /\ UNCHANGED <<conns, wowner, reqid, futs, qlog, sendVars, eventVars, idVars>>

Remove(n) == Mutation("remove", n, <<>>, remove(X0, n))

Empty(n) == Mutation("empty", n, <<>>, empty(X0, n))

SetTextContent(n, t) ==
    /\ t # None => Fresh(t)
    /\ Mutation("textContent", n, <<t>>, set_textContent(X0, n, t))

SetInnerHTML(n, frag) ==
    /\ \A i \in 1..Len(frag) : Fresh(frag[i]) /\ frag[i] # n
    /\ Mutation("innerHTML", n, frag, set_innerHTML(X0, n, frag))

Exec(n) == Mutation("exec", n, <<>>, exec(X0, n))

Scroll(n, method) == Mutation(method, n, <<>>, scroll(X0, n, method))

\* An event-handling call starts on the current tree and listener tables
E0 == [ch |-> children, out |-> <<>>, raised |-> FALSE, html |-> None,
       ls |-> listeners, events |-> <<>>]

\* One call of an event-handling method that ends in execution record x
EventCall(op, n, args, x) ==
    /\ listeners' = x.ls
    /\ last' = [Call(op, n, x.out, x.raised) EXCEPT
                   !.args = args, !.events = x.events,
                   !.had = IF args = <<>> THEN 0 ELSE Len(listeners[n][args[1]])]
    /\ UNCHANGED <<treeVars, conns, wowner, queryVars, sendVars, idVars>>

AddEventListener(n, event, l) ==
    /\ Len(listeners[n][event]) < MaxListeners
    /\ EventCall("addEventListener", n, <<event, l>>, addEventListener(E0, n, event, l))

RemoveEventListener(n, event, l) ==
    EventCall("removeEventListener", n, <<event, l>>, removeEventListener(E0, n, event, l))

Click(n) == EventCall("click", n, <<>>, click(E0, n))

\* The 'mount' event of node n arrives and is dispatched on it
Mount(n) == EventCall("mount", n, <<>>, dispatch_mount(E0, n))

\* An identity call starts on the current identities, registry and attributes
I0 == [rimo |-> rimo, registry |-> registry, attrs |-> attrs, raised |-> FALSE]

\* WdomElement(rimo_id=rid): a new element at a free address
Create(n, rid) ==
    /\ n \notin alive
    /\ LET i == WdomElement_init(I0, n, rid)
       IN  /\ rimo' = i.rimo
           /\ registry' = i.registry
           /\ attrs' = i.attrs
           /\ lastreg' = [lastreg EXCEPT ![i.rimo[n]] = n]
    /\ alive' = alive \cup {n}
    /\ reqid' = [reqid EXCEPT ![n] = 0]
    /\ tasks' = [tasks EXCEPT ![n] = {}]
    /\ futs' = [futs EXCEPT ![n] = <<>>]
    /\ qlog' = [qlog EXCEPT ![n] = <<>>]
    /\ listeners' = [listeners EXCEPT ![n] =
                        addEventListener(E0, n, "mount", "_on_mount").ls[n]]
    /\ last' = [Step("create", n, FALSE) EXCEPT !.args = <<rid>>]
    /\ UNCHANGED <<treeVars, conns, wowner, sendVars>>

\* The last reference to a detached element goes: the element is collected
Collect(n) ==
    /\ n \in alive
    /\ parentNode(children, n) = None /\ children[n] = <<>>
    /\ tasks[n] = {}
    /\ alive' = alive \ {n}
    /\ registry' = weak_remove(registry, n)
    /\ rimo' = [rimo EXCEPT ![n] = None]
    /\ attrs' = [attrs EXCEPT ![n] = [a \in AttrNames |-> None]]
    /\ listeners' = [listeners EXCEPT ![n] = [ev \in EventTypes |-> <<>>]]
    /\ last' = Step("collect", n, FALSE)
    /\ UNCHANGED <<treeVars, conns, wowner, queryVars, sendVars, lastreg>>

\* node.setAttribute(attr, value) / node[attr] = value
SetAttribute(n, attr, value) ==
    /\ n \in alive
    /\ LET i == setAttribute(I0, n, attr, value)
       IN  /\ rimo' = i.rimo
           /\ registry' = i.registry
           /\ attrs' = i.attrs
           /\ last' = [Step("setAttribute", n, i.raised) EXCEPT !.args = <<attr, value>>]
    /\ UNCHANGED <<treeVars, conns, wowner, queryVars, sendVars, eventVars, alive, lastreg>>

\* The inbound router looks an identity up
Resolve(id) ==
    /\ last' = [Step("resolve", resolve(registry, id), FALSE) EXCEPT !.args = <<id>>]
    /\ UNCHANGED <<treeVars, conns, wowner, queryVars, sendVars, eventVars, idVars>>

\* The bookkeeping common to the two js_query
Query(n, q) ==
    /\ reqid' = [reqid EXCEPT ![n] = q.reqid]
    /\ tasks' = [tasks EXCEPT ![n] = q.tasks]
    /\ futs' = [futs EXCEPT ![n] = q.futs]
    /\ qlog' = [qlog EXCEPT ![n] = IF q.out = <<>> THEN @ ELSE Append(@, q.out[1].params[1])]
    /\ UNCHANGED <<treeVars, conns, wowner, eventVars, idVars>>

\* Queries issued so far by all nodes
RECURSIVE Issued(_)
Issued(S) ==
    IF S = {} THEN 0
    ELSE LET n == CHOOSE m \in S : TRUE IN Len(futs[n]) + Issued(S \ {n})

\* WdomElement.scrollX / scrollY / getBoundingClientRect
JsQuery(n, query) ==
    /\ Issued(QueryNodes) < MaxReq
    /\ LET q == js_query(Q0(n), X0, n, query)
       IN  /\ Query(n, q)
           /\ last' = [Call("js_query", n, q.out, q.raised) EXCEPT
                          !.ret = q.ret, !.retfut = q.retfut]
    /\ UNCHANGED sendVars

\* A response message for node n reaches n.on_response
OnResponse(n, r, d) ==
    LET q == on_response(Q0(n), r, d)
    IN  /\ tasks' = [tasks EXCEPT ![n] = q.tasks]
        /\ futs' = [futs EXCEPT ![n] = q.futs]
        /\ last' = [Step("response", n, q.raised) EXCEPT
                       !.rid = r, !.data = d, !.h = Lookup(tasks[n], r),
                       !.pre = IF Lookup(tasks[n], r) = 0 THEN "nokey"
                               ELSE futs[n][Lookup(tasks[n], r)].st]
        /\ UNCHANGED <<treeVars, conns, wowner, reqid, qlog, sendVars, eventVars, idVars>>

\* A subclass attaches / detaches a WebIF node
WebAttach(w, d) ==
    /\ wowner[w] = None
    /\ wowner' = [wowner EXCEPT ![w] = d]
    /\ last' = Step("attach", w, FALSE)
    /\ UNCHANGED <<treeVars, conns, queryVars, sendVars, eventVars, idVars>>

WebDetach(w) ==
    /\ wowner[w] # None
    /\ wowner' = [wowner EXCEPT ![w] = None]
    /\ last' = Step("detach", w, FALSE)
    /\ UNCHANGED <<treeVars, conns, queryVars, sendVars, eventVars, idVars>>

\* The tasks a call created, numbered in the order of their creation; each
\* is noted with the connections the node's document has at that moment
Scheduled(out) ==
    [i \in 1..Len(out) |-> [node |-> out[i].node, method |-> out[i].method,
                            params |-> out[i].params, seq |-> nsched + i - 1,
                            conns |-> IF wowner[out[i].node] = None THEN {}
                                      ELSE conns[wowner[out[i].node]]]]

\* Mutant: the loop runs the newest task first
ensure_future_lifo(sq, ts) == ts \o sq

\* ensure_future: the loop runs the tasks in the order of their creation
ensure_future(sq, ts) == sq \o ts

WebJsExec(w, method) ==
    /\ nsched < MaxSched
    /\ LET q == WebIF_js_exec(Q0(w), w, method, <<>>)
       IN  /\ sendq' = ensure_future(sendq, Scheduled(q.out))
           /\ nsched' = nsched + Len(q.out)
           /\ last' = Call("js_exec", w, q.out, q.raised)
    /\ UNCHANGED <<treeVars, conns, wowner, queryVars, wire, eventVars, idVars>>

WebJsQuery(w, query) ==
    /\ Issued(QueryNodes) < MaxReq
    /\ Len(sendq) < MaxSendQ
    /\ LET q == WebIF_js_query(Q0(w), w, query)
       IN  /\ Query(w, q)
           /\ sendq' = ensure_future(sendq, Scheduled(q.out))
           /\ nsched' = nsched + Len(q.out)
           /\ wire' = wire
           /\ last' = [Call("js_query", w, q.out, q.raised) EXCEPT
                          !.ret = q.ret, !.retfut = q.retfut]

\* A message for node w reaches w.on_message
WebOnMessage(w, type, r, d) ==
    LET q == on_message(Q0(w), type, r, d)
    IN  /\ tasks' = [tasks EXCEPT ![w] = q.tasks]
        /\ futs' = [futs EXCEPT ![w] = q.futs]
        /\ last' = IF type = "response"
                   THEN [Step(type, w, q.raised) EXCEPT
                            !.rid = r, !.data = d, !.h = Lookup(tasks[w], r),
                            !.pre = IF Lookup(tasks[w], r) = 0 THEN "nokey"
                                    ELSE futs[w][Lookup(tasks[w], r)].st]
                   ELSE [Step(type, w, q.raised) EXCEPT
                            !.dispatched = q.dispatched]
        /\ UNCHANGED <<treeVars, conns, wowner, reqid, qlog, sendVars, eventVars, idVars>>

\* The event loop runs the oldest scheduled ws_send
RunSend ==
    /\ sendq # <<>>
    /\ LET s == WebIF_ws_send(Head(sendq))
       IN  /\ last' = [Step("ws_send", Head(sendq).node, FALSE) EXCEPT
                          !.cmds = <<s.msg>>, !.written = s.written,
                          !.args = <<Head(sendq).conns>>]
           /\ wire' = [c \in Conns |->
                         IF c \in s.written
                         THEN Append(wire[c], [id |-> Head(sendq).node,
                                              seq |-> Head(sendq).seq])
                         ELSE wire[c]]
    /\ sendq' = Tail(sendq)
    /\ UNCHANGED <<treeVars, conns, wowner, queryVars, nsched, eventVars, idVars>>

\* The caller cancels, or completes itself, a Future js_query gave it
Cancel(n, h) ==
    /\ h \in 1..Len(futs[n])
    /\ futs[n][h].st = "pending"
    /\ futs' = [futs EXCEPT ![n][h] = [st |-> "cancelled", val |-> None, by |-> "caller"]]
    /\ last' = Step("cancel", n, FALSE)
    /\ UNCHANGED <<treeVars, conns, wowner, reqid, tasks, qlog, sendVars, eventVars, idVars>>

SetResult(n, h) ==
    /\ h \in 1..Len(futs[n])
    /\ futs[n][h].st = "pending"
    /\ futs' = [futs EXCEPT ![n][h] = [st |-> "done", val |-> "caller", by |-> "caller"]]
    /\ last' = Step("set_result", n, FALSE)
    /\ UNCHANGED <<treeVars, conns, wowner, reqid, tasks, qlog, sendVars, eventVars, idVars>>

ScrollMethods == {"scroll", "scrollTo", "scrollBy"}
Queries == {"scrollX"}
QueryElems == {"e1"}              \* the element whose queries the model follows
MsgTypes == {"event", "response", "other", None}   \* None: a message without type
ExecMethods == {"exec", "scroll"}
Fragments == {<<>>} \cup {<<c>> : c \in Nodes}

Connection ==
    \/ \E d \in Docs, c \in MainConns : ConnOpen(d, c)
    \/ \E d \in Docs, c \in MainConns : ConnClose(d, c)

\* The sessions of several browsers
Sessions ==
    \/ \E d \in Docs, c \in Conns : ConnOpen(d, c)
    \/ \E d \in Docs, c \in Conns : ConnClose(d, c)

Attach == \E d \in Docs, n \in Elems : DocAppendChild(d, n)

Structure ==
    \/ \E n \in Elems, c \in Nodes : AppendChild(n, c)
    \/ \E n \in Elems, c \in Nodes, ref \in Nodes : InsertBefore(n, c, ref)
    \/ \E n \in Elems, c \in Nodes : RemoveChild(n, c)
    \/ \E n \in Elems, new \in Nodes, old \in Nodes : ReplaceChild(n, new, old)
    \/ \E n \in Elems : Remove(n)
    \/ \E n \in Elems : Empty(n)
    \/ \E n \in Elems, t \in Texts \cup {None} : SetTextContent(n, t)
    \/ \E n \in Elems, frag \in Fragments : SetInnerHTML(n, frag)
    \/ \E n \in Elems : Exec(n)
    \/ \E n \in Elems, m \in ScrollMethods : Scroll(n, m)

Requests ==
    \/ \E d \in Docs, n \in QueryElems : DocAppendChild(d, n)
    \/ \E n \in QueryElems : Remove(n)
    \/ \E n \in QueryElems, query \in Queries : JsQuery(n, query)
    \/ \E n \in QueryElems, r \in 0..(MaxReq - 1), d \in Data : OnResponse(n, r, d)
    \/ \E w \in WebIFs, d \in Docs : WebAttach(w, d)
    \/ \E w \in WebIFs : WebDetach(w)
    \/ \E w \in WebIFs, query \in Queries : WebJsQuery(w, query)
    \/ \E w \in WebIFs, r \in 0..(MaxReq - 1), d \in Data : WebOnMessage(w, "response", r, d)
    \/ \E w \in WebIFs, type \in MsgTypes \ {"response"} :
          WebOnMessage(w, type, NoReqid, "null")
    \/ RunSend
    \/ \E n \in QueryNodes, h \in 1..MaxReq : Cancel(n, h)
    \/ \E n \in QueryNodes, h \in 1..MaxReq : SetResult(n, h)

\* The listeners of an element and click()
Events ==
    \/ \E d \in Docs, n \in QueryElems : DocAppendChild(d, n)
    \/ \E n \in QueryElems : Remove(n)
    \/ \E n \in QueryElems, ev \in EventTypes, l \in Listeners : AddEventListener(n, ev, l)
    \/ \E n \in QueryElems, ev \in EventTypes, l \in Listeners \cup {"_on_mount"} :
          RemoveEventListener(n, ev, l)
    \/ \E n \in QueryElems : Click(n)
    \/ \E n \in QueryElems : Mount(n)

\* The life of the elements and of their identities
Identity ==
    \/ \E n \in Elems, rid \in Ids \cup {None} : Create(n, rid)
    \/ \E n \in Elems : Collect(n)
    \/ \E n \in Elems, attr \in AttrNames \cup {"rimo_id"}, v \in AttrValues :
          SetAttribute(n, attr, v)
    \/ \E id \in Ids : Resolve(id)
    \/ \E d \in Docs, n \in alive : DocAppendChild(d, n)
    \/ \E n \in alive : Remove(n)

\* The send pipeline of WebIF
Sends ==
    \/ \E w \in WebIFs, d \in Docs : WebAttach(w, d)
    \/ \E w \in WebIFs : WebDetach(w)
    \/ \E w \in WebIFs, m \in ExecMethods : WebJsExec(w, m)
    \/ RunSend

Next == Sessions \/ Attach \/ Structure \/ Requests \/ Sends \/ Events \/ Identity

Spec == Init /\ [][Next]_vars

\* The structural mutations alone, with attachment and connections
SpecTree == Init /\ [][Connection \/ Attach \/ Structure]_vars

\* The queries and their responses alone, with attachment and connections
SpecQuery == Init /\ [][Connection \/ Requests]_vars

\* The event-handling calls alone, with attachment and connections
SpecEvent == Init /\ [][Connection \/ Events]_vars

\* The creation and collection of elements, with attributes and attachment
SpecIdentity == Init /\ [][Identity]_vars

\* The scheduled sends of WebIF alone, with attachment and connections
SpecSend == Init /\ [][Sessions \/ Sends]_vars

(***************************************************************************)
(* Properties                                                              *)
(***************************************************************************)
StructuralOps == {"appendChild", "insertBefore", "removeChild", "replaceChild",
                  "remove", "empty", "textContent", "innerHTML"}
CommandOps == StructuralOps \cup {"exec"} \cup ScrollMethods
EventOps == {"addEventListener", "removeEventListener", "click"}
GatedOps == CommandOps \cup EventOps \cup {"js_query", "js_exec"}

\* The handles js_query returned on node n for request id r
HandlesFor(n, r) == {h \in 1..Len(qlog[n]) : qlog[n][h] = r}

\* C1: a node's `connected` is true exactly when the node has an owning
\* document and that document has at least one live connection.
C1_ConnectedIffOwnerHasConnection ==
    \A n \in QueryNodes : connected(children, n) <=> GateConnected(children, n)

\* What holds of `connected`: a node without an owning document is never
\* connected, and a node whose document has a connection always is.
ConnectedBounds ==
    \A n \in QueryNodes :
        /\ OwnerOf(children, n) = None => ~connected(children, n)
        /\ GateConnected(children, n) => connected(children, n)

\* C2: a call made while the node is not connected (its owning document has
\* no live connection, or it has no owning document) emits no command.
C2_NoCommandWhenNotConnected ==
    (last.op \in GatedOps /\ ~last.gate) => last.cmds = <<>>

\* What holds of the gate in the code: no command leaves a call made while the
\* node's `connected` property is false.
NoCommandWhenPropertyFalse ==
    (last.op \in GatedOps /\ ~last.prop) => last.cmds = <<>>

C4_ExactlyOneCommand ==
    (last.op \in CommandOps /\ last.gate /\ ~last.raised) => Len(last.cmds) = 1

\* C4 amended: a mutation call on a connected node that returns normally emits
\* exactly one command, except replaceChild of a plain text child, which emits
\* two: removeChildByIndex, then insert.
C4_OneCommandPerCompletedCall ==
    (last.op \in CommandOps /\ last.gate /\ ~last.raised) =>
        IF last.op = "replaceChild" /\ last.args[2] \in Texts
        THEN /\ Len(last.cmds) = 2
             /\ last.cmds[1].method = "removeChildByIndex"
             /\ last.cmds[2].method = "insert"
        ELSE Len(last.cmds) = 1

\* C4 witness: a text child of a connected node has been replaced.
C4_Witness ==
    /\ last.op = "replaceChild" /\ last.gate /\ ~last.raised
    /\ last.args[2] \in Texts

\* C5: a response whose reqid matches a pending handle completes the handle
\* with the message's data and removes its table entry, whatever the data.
C5_ResponseCompletesHandle ==
    (last.op = "response" /\ last.pre = "pending") =>
        /\ futs[last.node][last.h].st = "done"
        /\ futs[last.node][last.h].val = last.data
        /\ Lookup(tasks[last.node], last.rid) = 0

\* What holds of the code: a response with a truthy payload does so.
TruthyResponseCompletesHandle ==
    (last.op = "response" /\ last.pre = "pending" /\ Truthy(last.data)) =>
        /\ futs[last.node][last.h].st = "done"
        /\ futs[last.node][last.h].val = last.data
        /\ Lookup(tasks[last.node], last.rid) = 0

\* C6: js_query on a node that is not connected returns a handle already
\* resolved with None and emits no command.
C6_DisconnectedQueryResolved ==
    (last.op = "js_query" /\ ~last.gate) =>
        /\ last.retfut = ResolvedNone
        /\ last.ret = 0
        /\ last.cmds = <<>>

\* What holds of the code: js_query does so when `connected` is false.
QueryResolvedWhenPropertyFalse ==
    (last.op = "js_query" /\ ~last.prop) =>
        /\ last.retfut = ResolvedNone
        /\ last.ret = 0
        /\ last.cmds = <<>>

\* C7: the request ids a node's queries carry start at 0 and each is greater
\* than every id issued before it on that node, so none is issued twice.
C7_RequestIdsIncrease ==
    \A n \in QueryNodes :
        /\ qlog[n] # <<>> => qlog[n][1] = 0
        /\ \A i, j \in 1..Len(qlog[n]) : i < j => qlog[n][i] < qlog[n][j]

\* C7 witness: a node has issued a second query after the first was answered.
C7_Witness ==
    \E n \in QueryNodes :
        /\ Len(qlog[n]) = 2
        /\ futs[n][1].by = "response"
        /\ last.op = "js_query" /\ last.node = n

\* C8: a response with request id r delivered to node N changes no handle and
\* no table entry other than those of the handle js_query returned for r on N.
C8_ResponseCompletesOnlyMatching ==
    [][last'.op = "response" =>
         \A m \in QueryNodes : \A h \in 1..Len(futs[m]) :
             (m # last'.node \/ h \notin HandlesFor(m, last'.rid)) =>
                 /\ futs'[m][h] = futs[m][h]
                 /\ \A e \in tasks[m] : e.h = h => e \in tasks'[m]
      ]_vars

\* C8 witness: a response has completed one handle of a node while another
\* handle of the same node is pending in the table.
C8_Witness ==
    /\ last.op = "response" /\ last.pre = "pending" /\ last.h # 0
    /\ futs[last.node][last.h].by = "response"
    /\ \E e \in tasks[last.node] : futs[last.node][e.h].st = "pending"

\* C9: a response whose request id was never issued on the node, or whose
\* handle an earlier response resolved, raises nothing and changes neither the
\* table, nor the counter, nor any handle.
C9_StaleResponseNoOp ==
    [][(/\ last'.op = "response"
        /\ LET n == last'.node
               hs == HandlesFor(n, last'.rid)
           IN  \/ hs = {}
               \/ \E h \in hs : futs[n][h].by = "response")
       => /\ ~last'.raised
          /\ tasks' = tasks /\ reqid' = reqid /\ futs' = futs
      ]_vars

\* C9 witness: a response with a payload found no entry for a request id
\* whose handle an earlier response had resolved.
C9_Witness ==
    /\ last.op = "response" /\ last.pre = "nokey" /\ Truthy(last.data)
    /\ \E h \in HandlesFor(last.node, last.rid) : futs[last.node][h].by = "response"

\* C10: a response for a handle the caller has cancelled or completed raises
\* nothing, leaves that handle as the caller left it, and touches no other
\* handle and no other table entry.
C10_LateResponseDropped ==
    [][(last'.op = "response" /\ last'.pre \in {"cancelled", "done"})
       => /\ ~last'.raised
          /\ futs' = futs
          /\ \A m \in QueryNodes : \A e \in tasks[m] :
                 (m # last'.node \/ e.k # last'.rid) => e \in tasks'[m]
      ]_vars

\* C10 witness: a response with a payload arrived for a cancelled handle.
C10_Witness ==
    /\ last.op = "response" /\ last.pre = "cancelled" /\ Truthy(last.data)
    /\ futs[last.node][last.h].st = "cancelled"

\* C11: on every connection, the commands of one node arrive in the order of
\* the calls that emitted them, each send of WebIF being a task of its own.
C11_CommandsDeliveredInCallOrder ==
    \A c \in Conns : \A i, j \in 1..Len(wire[c]) :
        (i < j /\ wire[c][i].id = wire[c][j].id) => wire[c][i].seq < wire[c][j].seq

\* C11 witness: a send ran and was written while a later call's send was still
\* waiting, on a connection that had already received an earlier command.
C11_Witness ==
    /\ last.op = "ws_send" /\ last.written # {}
    /\ sendq # <<>>
    /\ \E c \in last.written : Len(wire[c]) >= 2

\* C12: removeChild of a node that is not a child of the receiver raises,
\* emits no command even on a connected receiver, and leaves the tree as it was.
C12_RemoveNonChildRaises ==
    [][(last'.op = "removeChild" /\ ~InSeq(last'.args[1], children[last'.node]))
       => /\ last'.raised
          /\ last'.cmds = <<>>
          /\ children' = children
      ]_vars

\* C12 witness: removeChild of an element that is not its child has raised on
\* a connected node.
C12_Witness ==
    /\ last.op = "removeChild" /\ last.raised /\ last.gate
    /\ last.args[1] \in Elems

DisconnectOps == {"close", "detach", "remove"}

\* C13: when a connection closes or a node is detached, every handle that is
\* pending stays pending and every table entry of a pending handle stays in
\* its table.
C13_DisconnectKeepsPending ==
    [][last'.op \in DisconnectOps =>
         \A n \in QueryNodes : \A h \in 1..Len(futs[n]) :
             futs[n][h].st = "pending" =>
                 /\ futs'[n][h] = futs[n][h]
                 /\ \A e \in tasks[n] : e.h = h => e \in tasks'[n]
      ]_vars

\* C13 witness: the last connection of a document has closed, or a node has
\* been detached, while a query of the node was pending in its table.
C13_Witness ==
    /\ last.op \in DisconnectOps
    /\ \E n \in QueryNodes :
          /\ ~GateConnected(children, n)
          /\ \E e \in tasks[n] : futs[n][e.h].st = "pending"

\* C14: appendChild on a connected node emits exactly one command,
\* (insertAdjacentHTML, 'beforeend', html), whose html without the identity
\* attribute is the child's serialisation in the local tree after the call,
\* for an element child and for a text child.
C14_AppendCommandCarriesChildHtml ==
    (last.op = "appendChild" /\ last.gate) =>
        /\ Len(last.cmds) = 1
        /\ last.cmds[1].method = "insertAdjacentHTML"
        /\ last.cmds[1].params[1] = "beforeend"
        /\ remove_rimo_id(last.cmds[1].params[2])
               = remove_rimo_id(html(children, last.args[1]))

\* C14 witness: a text node has been appended to a connected node.
C14_Witness ==
    /\ last.op = "appendChild" /\ last.gate
    /\ last.args[1] \in Texts
    /\ Len(last.cmds) = 1

\* C15: while the node is connected, addEventListener emits an
\* 'addEventListener' command exactly when the node had no listener for the
\* event type before the call.
C15_AddListenerCommandOnlyForNewType ==
    (last.op = "addEventListener" /\ last.gate) =>
        IF last.had = 0
        THEN /\ Len(last.cmds) = 1
             /\ last.cmds[1].method = "addEventListener"
        ELSE last.cmds = <<>>

\* What holds of the code: every addEventListener on a connected node emits
\* one 'addEventListener' command for the event type.
AddListenerAlwaysCommands ==
    (last.op = "addEventListener" /\ last.gate) =>
        /\ Len(last.cmds) = 1
        /\ last.cmds[1].method = "addEventListener"
        /\ last.cmds[1].params = <<last.args[1]>>

\* C16: while the node is connected, removeEventListener emits a
\* 'removeEventListener' command if and only if no listener of the event type
\* is left on the node after the removal.
C16_RemoveListenerCommandIffNoneLeft ==
    (last.op = "removeEventListener" /\ last.gate) =>
        IF listeners[last.node][last.args[1]] = <<>>
        THEN /\ Len(last.cmds) = 1
             /\ last.cmds[1].method = "removeEventListener"
             /\ last.cmds[1].params = <<last.args[1]>>
        ELSE last.cmds = <<>>

\* C16 witness: the only listener of an event type has been removed from a
\* connected node, with the command emitted.
C16_Witness ==
    /\ last.op = "removeEventListener" /\ last.gate
    /\ last.had = 1
    /\ listeners[last.node][last.args[1]] = <<>>
    /\ Len(last.cmds) = 1

\* The one dispatch click() makes on node n when it dispatches locally
ClickDispatch(n) ==
    <<[event |-> [type |-> "click", currentTarget |-> rimo[n], target |-> rimo[n]],
       listeners |-> listeners[n]["click"]]>>

\* C17: click() on a node that is not connected dispatches exactly one event
\* to the node's listeners, of type 'click' with target and currentTarget the
\* node's rimo_id, and emits no command.
C17_ClickDispatchesLocally ==
    (last.op = "click" /\ ~last.gate) =>
        /\ last.cmds = <<>>
        /\ last.events = ClickDispatch(last.node)

\* What holds of the code: click() does so when `connected` is false.
ClickDispatchesWhenPropertyFalse ==
    (last.op = "click" /\ ~last.prop) =>
        /\ last.cmds = <<>>
        /\ last.events = ClickDispatch(last.node)

\* C18: the rimo_id of a node is the one its constructor gave it (the
\* caller's value, else the one derived from the object's identity) and no
\* call changes it; setting the attribute 'rimo_id' raises and leaves the
\* rimo_id, the other attributes and the registry as they were.
C18_RimoIdFixed ==
    [][/\ \A n \in alive \cap alive' : rimo'[n] = rimo[n]
       /\ last'.op = "create" =>
              rimo'[last'.node] = IF last'.args[1] = None THEN str_id(last'.node)
                                  ELSE last'.args[1]
       /\ (last'.op = "setAttribute" /\ last'.args[1] = "rimo_id") =>
              /\ last'.raised
              /\ rimo' = rimo /\ attrs' = attrs /\ registry' = registry
      ]_vars

\* C18 witness: setting 'rimo_id' has raised on a node that has an attribute
\* and an identity its caller supplied.
C18_Witness ==
    /\ last.op = "setAttribute" /\ last.args[1] = "rimo_id" /\ last.raised
    /\ rimo[last.node] = "x"
    /\ attrs[last.node]["class"] # None

\* C19: looking an id up in the registry gives not-found or the node that was
\* registered last under the id, which is alive and has that rimo_id; the
\* lookup of an id without entry raises nothing.
C19_RegistryResolvesLive ==
    /\ \A id \in Ids :
          LET r == resolve(registry, id)
          IN  r # None => r = lastreg[id] /\ r \in alive /\ rimo[r] = id
    /\ last.op = "resolve" => ~last.raised /\ last.node = resolve(registry, last.args[1])

\* C19 witness: a node has been collected whose id another live node bears,
\* and the lookup of that id finds nothing.
C19_Witness ==
    /\ last.op = "resolve" /\ last.node = None
    /\ lastreg[last.args[1]] \notin alive \cup {None}
    /\ \E m \in alive : rimo[m] = last.args[1]

\* C20: no two nodes alive at the same time have the same rimo_id.
C20_LiveIdsDistinct ==
    \A n, m \in alive : n # m => rimo[n] # rimo[m]

\* C21: a message whose type is neither 'event' nor 'response', or that has
\* no type, raises nothing, dispatches no event, emits and schedules no
\* command and leaves the pending table, the handles and the counter alone.
C21_UnknownMessageIgnored ==
    [][last'.op \in MsgTypes \ {"event", "response"} =>
         /\ ~last'.raised
         /\ last'.dispatched = 0
         /\ last'.cmds = <<>>
         /\ sendq' = sendq
         /\ tasks' = tasks /\ futs' = futs /\ reqid' = reqid
      ]_vars

\* C21 witness: a message without type has reached a node that has a pending
\* request in its table.
C21_Witness ==
    /\ last.op = None
    /\ last.node \in WebIFs
    /\ \E e \in tasks[last.node] : futs[last.node][e.h].st = "pending"

\* The identity a command of node n carries
NodeId(n) == IF n \in WebIFs THEN n ELSE rimo[n]

\* The node whose js_exec a call of the last kind runs
Issuer == IF last.op = "insertBefore" /\ last.args[2] \in Elems
          THEN last.args[2] ELSE last.node

\* C22: every command handed to the transport has target 'node', the identity
\* and the tag of the node it was issued on, and the method and the
\* parameters of the call, in their order.
C22_CommandCarriesRouting ==
    [][/\ (last'.node \in Elems /\ last'.op \in GatedOps \cup {"mount"}) =>
            \A i \in 1..Len(last'.cmds) :
                /\ last'.cmds[i].target = "node"
                /\ last'.cmds[i].id = NodeId(Issuer)'
                /\ last'.cmds[i].tag = tag(Issuer')
                /\ last'.op = "exec" =>
                       last'.cmds[i].method = "eval" /\ last'.cmds[i].params = <<"script">>
                /\ last'.op \in ScrollMethods =>
                       last'.cmds[i].method = last'.op /\ last'.cmds[i].params = <<0, 0>>
                /\ last'.op = "js_query" =>
                       last'.cmds[i].method \in Queries /\ last'.cmds[i].params = <<reqid[last'.node]>>
       /\ last'.op = "ws_send" =>
            last'.cmds = <<[method |-> Head(sendq).method, params |-> Head(sendq).params,
                            target |-> "node", id |-> NodeId(Head(sendq).node),
                            tag |-> tag(Head(sendq).node)]>>
      ]_vars

\* C22 witness: a command of insertBefore has gone out under the identity of
\* the reference element, on which it was issued.
C22_Witness ==
    /\ last.op = "insertBefore" /\ ~last.raised
    /\ last.args[2] \in Elems
    /\ Len(last.cmds) = 1
    /\ last.cmds[1].id = rimo[last.args[2]]

\* C23: insertBefore(child, ref) or replaceChild(new, old) on a connected
\* node whose ref/old is not among its children raises, with no command
\* emitted and the tree as it was, for an element and for a text node alike.
C23_NonChildRaisesBeforeCommand ==
    [][(/\ last'.op \in {"insertBefore", "replaceChild"}
        /\ last'.gate
        /\ ~InSeq(last'.args[2], children[last'.node])) =>
            /\ last'.raised
            /\ last'.cmds = <<>>
            /\ children' = children ]_vars

\* What holds of the code: the call raises and the tree is as it was, and
\* insertBefore with a text node as reference emits nothing.
NonChildRaisesTreeUnchanged ==
    [][(/\ last'.op \in {"insertBefore", "replaceChild"}
        /\ ~InSeq(last'.args[2], children[last'.node])) =>
            /\ last'.raised
            /\ children' = children
            /\ (last'.op = "insertBefore" /\ last'.args[2] \in Texts) => last'.cmds = <<>>
      ]_vars

\* C24: removeChild(child) on a connected node that has the child emits
\* 'removeChildById' with the child's rimo_id for an element, and otherwise
\* 'removeChildByIndex' with the index the child had before its removal.
C24_RemoveChildCommand ==
    [][(/\ last'.op = "removeChild"
        /\ last'.gate
        /\ InSeq(last'.args[1], children[last'.node])) =>
            /\ ~last'.raised
            /\ Len(last'.cmds) = 1
            /\ last'.cmds[1].id = rimo[last'.node]
            /\ IF last'.args[1] \in Elems
               THEN /\ last'.cmds[1].method = "removeChildById"
                    /\ last'.cmds[1].params = <<rimo[last'.args[1]]>>
               ELSE /\ last'.cmds[1].method = "removeChildByIndex"
                    /\ last'.cmds[1].params =
                          <<IndexOf(children[last'.node], last'.args[1])>>
      ]_vars

\* C24 witness: a text node that was not the first child has been removed by
\* its index.
C24_Witness ==
    /\ last.op = "removeChild" /\ last.gate /\ ~last.raised
    /\ last.args[1] \in Texts
    /\ Len(last.cmds) = 1
    /\ last.cmds[1].method = "removeChildByIndex"
    /\ last.cmds[1].params[1] > 0

BrowserChildren(ch, n) ==
    [i \in 1..Len(ch[n]) |-> IF ch[n][i] \in Elems THEN rimo[ch[n][i]] ELSE ch[n][i]]

\* removeChildByIndex(index): the child at the 0-based index leaves
browser_removeChildByIndex(bl, index) ==
    IF index < Len(bl)
    THEN SubSeq(bl, 1, index) \o SubSeq(bl, index + 2, Len(bl))
    ELSE bl

\* insert(index, html): the parsed node goes before the child at the index,
\* or to the end when there is no such child
browser_insert(bl, index, h) ==
    IF index < Len(bl) THEN InsertAt(bl, index, h.node) ELSE Append(bl, h.node)

RECURSIVE replay(_, _)
replay(bl, cmds) ==
    IF cmds = <<>> THEN bl
    ELSE LET c == Head(cmds)
             b1 == IF c.method = "removeChildByIndex"
                   THEN browser_removeChildByIndex(bl, c.params[1])
                   ELSE IF c.method = "insert"
                        THEN browser_insert(bl, c.params[1], c.params[2])
                        ELSE bl
         IN  replay(b1, Tail(cmds))

C27_TextAndInnerHtmlCommands ==
    [][/\ (last'.op = "textContent" /\ last'.gate) =>
            /\ ~last'.raised
            /\ Len(last'.cmds) = 1
            /\ last'.cmds[1].method = "textContent"
            /\ last'.cmds[1].params = <<textContent(children', last'.node)>>
            /\ children'[last'.node] =
                  IF last'.args[1] = None THEN <<>> ELSE <<last'.args[1]>>
       /\ (last'.op = "innerHTML" /\ last'.gate) =>
            /\ ~last'.raised
            /\ Len(last'.cmds) = 1
            /\ last'.cmds[1].method = "innerHTML"
            /\ last'.cmds[1].params = <<frag_html(last'.args)>>
            /\ children'[last'.node] = last'.args
      ]_vars

\* C27 witness: a connected node has been given a new text and the command
\* carries it.
C27_Witness ==
    /\ last.op = "textContent" /\ last.gate
    /\ last.args[1] \in Texts
    /\ Len(last.cmds) = 1
    /\ last.cmds[1].params = <<textContent(children, last.node)>>
    /\ textContent(children, last.node) = <<last.args[1]>>

\* C28: click() on a connected node emits exactly one 'click' command and
\* dispatches nothing locally; no click() call dispatches more than once.
C28_ConnectedClickOnlyCommands ==
    /\ (last.op = "click" /\ last.gate) =>
          /\ Len(last.cmds) = 1
          /\ last.cmds[1].method = "click"
          /\ last.cmds[1].params = <<>>
          /\ last.events = <<>>
    /\ last.op = "click" => Len(last.events) <= 1

\* C28 witness: click() has been called on a connected node that has a
\* listener for 'click'.
C28_Witness ==
    /\ last.op = "click" /\ last.gate
    /\ listeners[last.node]["click"] # <<>>
    /\ Len(last.cmds) = 1

\* The number of 'addEventListener' commands for event type ev among cmds
Announced(cmds, ev) ==
    Cardinality({i \in 1..Len(cmds) :
                    cmds[i].method = "addEventListener" /\ cmds[i].params = <<ev>>})

\* C29: a 'mount' event dispatched on a connected node, whose constructor's
\* mount listener is registered, emits one 'addEventListener' command for
\* every event type that has a listener on the node, and nothing else.
C29_MountAnnouncesListeners ==
    (/\ last.op = "mount" /\ last.gate
     /\ InSeq("_on_mount", listeners[last.node]["mount"])) =>
        /\ \A ev \in EventTypes :
              Announced(last.cmds, ev) =
                 IF listeners[last.node][ev] # <<>> THEN 1 ELSE 0
        /\ \A i \in 1..Len(last.cmds) : last.cmds[i].method = "addEventListener"

\* C29 witness: the mount event has announced the listeners of two event
\* types.
C29_Witness ==
    /\ last.op = "mount" /\ last.gate
    /\ listeners[last.node]["click"] # <<>>
    /\ Len(last.cmds) = 2

\* C30: in WebIF, when the scheduled send of a query has run and the handle
\* of the query is pending in the table, the query command has been written
\* to at least one connection.
C30_PendingQueryWasWritten ==
    (/\ last.op = "ws_send"
     /\ last.cmds[1].method \in Queries
     /\ \E e \in tasks[last.node] :
           /\ e.k = last.cmds[1].params[1]
           /\ futs[last.node][e.h].st = "pending") =>
        last.written # {}

\* C31: in WebIF, a send that runs writes its command once to every
\* connection the node's document has at that moment and to no other
\* connection, whatever the connections were when the call was made; no
\* connection ever holds the command of one call twice.
C31_WrittenToCurrentConnections ==
    [][last'.op = "ws_send" =>
          /\ last'.written = IF wowner[last'.node] = None THEN {}
                             ELSE conns[wowner[last'.node]]
          /\ \A c \in Conns :
                wire'[c] = IF c \in last'.written
                           THEN Append(wire[c], [id |-> last'.node,
                                                 seq |-> Head(sendq).seq])
                           ELSE wire[c]
          /\ \A c \in Conns : \A i, j \in 1..Len(wire'[c]) :
                wire'[c][i].seq = wire'[c][j].seq => i = j
      ]_vars

\* C31 witness: a send has written to a connection that was opened after
\* the call, while a connection of another document got nothing.
C31_Witness ==
    /\ last.op = "ws_send"
    /\ \E c \in last.written : c \notin last.args[1]
    /\ \E d \in Docs : d # wowner[last.node] /\ conns[d] # {}

\* C32: the request counter of a node counts the js_query calls made on it
\* while it was connected, every key of its pending table is an integer from
\* 0 to the counter less one, and a js_query made while the node is not
\* connected changes neither the counter nor the table.
C32_CounterCountsConnectedQueries ==
    [][/\ \A n \in QueryNodes :
            /\ reqid'[n] = reqid[n] +
                  (IF last'.op = "js_query" /\ last'.node = n /\ last'.gate
                   THEN 1 ELSE 0)
            /\ \A e \in tasks'[n] : e.k \in 0..(reqid'[n] - 1)
       /\ (last'.op = "js_query" /\ ~last'.gate) => tasks' = tasks
      ]_vars

\* What holds of the code: the same with the `connected` property in the
\* place of the connection state, and the counter is the number of query
\* commands the node has emitted.
CounterCountsQueriesWhenProperty ==
    [][/\ \A n \in QueryNodes :
            /\ reqid'[n] = reqid[n] +
                  (IF last'.op = "js_query" /\ last'.node = n /\ last'.prop
                   THEN 1 ELSE 0)
            /\ reqid'[n] = Len(qlog'[n])
            /\ \A e \in tasks'[n] : e.k \in 0..(reqid'[n] - 1)
       /\ (last'.op = "js_query" /\ ~last'.prop) => tasks' = tasks
      ]_vars

\* C33: the request id a query command carries is the key under which the
\* handle of that query is stored, from the return of js_query on: a handle
\* that is pending is in the table under the id of its command, so that a
\* send of WebIF runs, and a response is looked up, only after the handle
\* was registered.
C33_HandleRegisteredBeforeResponse ==
    /\ \A n \in QueryNodes :
          /\ Len(qlog[n]) = Len(futs[n])
          /\ \A h \in 1..Len(futs[n]) :
                futs[n][h].st = "pending" => Lookup(tasks[n], qlog[n][h]) = h
    /\ (last.op = "js_query" /\ last.cmds # <<>>) =>
          /\ last.ret = Len(futs[last.node])
          /\ last.cmds[1].params = <<qlog[last.node][last.ret]>>
    /\ (last.op = "ws_send" /\ last.cmds[1].method \in Queries) =>
          HandlesFor(last.node, last.cmds[1].params[1]) # {}
    /\ (last.op = "response" /\ last.pre = "nokey") =>
          \A h \in HandlesFor(last.node, last.rid) :
              futs[last.node][h].st # "pending"

\* C33 witness: the response to a query of a WebIF node, whose send has run,
\* has found the handle pending under its request id.
C33_Witness ==
    /\ last.op = "response" /\ last.node \in WebIFs
    /\ last.pre = "pending" /\ last.h > 0
    /\ HandlesFor(last.node, last.rid) = {last.h}
    /\ sendq = <<>>

====
